---- MODULE Spec2Model ----
(***************************************************************************)
(* Model of the self-adaptive differential evolution population of         *)
(* src/src/lib.rs: Population::new, update_best, update_positions, best,   *)
(* num_cost_evaluations, eval and PopIter::next.                           *)
(*                                                                         *)
(* Reals are modelled on an integer grid.  Positions and the factor f are  *)
(* integers.  A draw of rng.gen::<f32>() (a value of [0,1)) and the values *)
(* cr, cr_change_probability and f_change_probability are counted in       *)
(* halves: 0 is 0.0, 1 is 0.5, 2 is 1.0.  Uniform::new(low, high) samples  *)
(* the half-open range low .. high-1 and panics when low >= high, as the   *)
(* rand crate the source is written against documents.                     *)
(***************************************************************************)
EXTENDS Integers, Sequences, FiniteSets, TLC

\* ------------------------------------------------------------------ bounds
\* largest population size explored (Settings::pop_size)
MaxPop == 3
\* largest number of dimensions explored (Settings::min_max_pos.len())
MaxDim == 2
\* number of cost evaluations after which no further call is started
MaxEvals == 7
\* largest argument of Iterator::nth explored
MaxNth == 2

\* ------------------------------------------------------------ option, cost
\* Option<T>: None is the empty sequence, Some(x) the one-element sequence.
None == << >>
Some(x) == << x >>
IsNone(o) == o = None
IsSome(o) == o /= None
Unwrap(o) == o[1]

\* A cost value of the type C: PartialOrd.  nan marks a value that compares
\* with nothing (f32::NAN); v is the number otherwise.
Num(n) == [nan |-> FALSE, v |-> n]
NaN == [nan |-> TRUE, v |-> 0]
Comparable(a, b) == ~a.nan /\ ~b.nan
\* PartialOrd::lt, the `<` of lines 441 and 477: false when a side does not
\* compare
Lt(a, b) == ~a.nan /\ ~b.nan /\ a.v < b.v
\* a `<=` written as "not greater": true when a side does not compare
LeNotGreater(a, b) == ~(~a.nan /\ ~b.nan /\ a.v > b.v)
\* PartialOrd::le, the `<=` of line 358: false when a side does not compare
Le(a, b) == ~a.nan /\ ~b.nan /\ a.v <= b.v

Abs(n) == IF n < 0 THEN -n ELSE n

RECURSIVE SumTo(_, _)
\* sum of pos[0] .. pos[n-1]
SumTo(pos, n) == IF n = 0 THEN 0 ELSE pos[n - 1] + SumTo(pos, n - 1)
RECURSIVE SumAbsTo(_, _)
SumAbsTo(pos, n) == IF n = 0 THEN 0 ELSE Abs(pos[n - 1]) + SumAbsTo(pos, n - 1)

\* The caller's cost functions explored: deterministic functions of the
\* position.  "abs" has its minimum at the origin (and is constant on a
\* population that sits there), "neg" has no minimum, "nanodd" does not
\* compare on positions of odd sum.
CostFns == {"abs", "neg", "nanodd"}
CostFunction(fn, pos, d) ==
    CASE fn = "abs" -> Num(SumAbsTo(pos, d))
      [] fn = "neg" -> Num(-SumTo(pos, d))
      [] fn = "nanodd" -> IF SumTo(pos, d) % 2 = 1 THEN NaN
                          ELSE Num(SumAbsTo(pos, d))

\* --------------------------------------------------------- random sampling
\* the values rng.gen::<f32>() can return: 0.0 and 0.5
UnitDraws == {0, 1}
\* Uniform::new(low, high) panics unless low < high
UniformOk(range) == range[1] < range[2]
\* a sampler that can also return its upper bound
UniformSampleInclusive(range) == range[1] .. range[2]
\* Uniform::sample of Uniform::new(low, high): a value of [low, high)
UniformSample(range) == range[1] .. (range[2] - 1)

\* ------------------------------------------------------------------- state
VARIABLES
    settings,              \* Settings handed to Population::new
    pc,                    \* where the program is: "unbuilt", "panicked", "idle"
                           \* (between calls), or inside eval: "draw", "loop2",
                           \* "loop3", "evaluate"
    curr,                  \* Population::curr, indexed 0 .. pop_size-1
    best,                  \* Population::best, indexed 0 .. pop_size-1
    best_idx,              \* Population::best_idx: Option<usize>
    best_cost_cache,       \* Population::best_cost_cache: Option<C>
    num_cost_evaluations,  \* Population::num_cost_evaluations
    dim,                   \* Population::dim
    pop_countdown,         \* Population::pop_countdown
    i,                     \* loop index of update_positions
    id1, id2, id3,         \* the donor indices drawn for slot i
    caller,                \* who entered eval: "eval" (direct) or "next" (PopIter)
    yielded,               \* what PopIter::next returned, when the last call was
                           \* one and has returned: Option<C>
    entry,                 \* observations taken when the running call was entered
    panic_at,              \* which check of Population::new failed, or "none"
    rng_used,              \* whether the random source has been sampled
    cost_calls,            \* how often the cost function has been invoked
    seen,                  \* the cost values the cost function has returned
    passes,                \* completed update_best + update_positions passes
    nth                    \* the iter().nth(n) in progress or just finished:
                           \* Some([n, left]), left counting the next() calls
                           \* still to make; None otherwise

vars == << settings, pc, curr, best, best_idx, best_cost_cache,
           num_cost_evaluations, dim, pop_countdown, i, id1, id2, id3, caller,
           yielded, entry, panic_at, rng_used, cost_calls, seen, passes, nth >>

\* ---------------------------------------------------------------- settings
\* min_max_pos of a problem of d dimensions: the first dimension starts in
\* [0, 2), the others in [0, 1)
MinMaxPos(d) == [k \in 1 .. d |-> IF k = 1 THEN << 0, 2 >> ELSE << 0, 1 >>]
\* the degenerate search box of a single point
PointMinMaxPos(d) == [k \in 1 .. d |-> << 0, 0 >>]

MkSettings(mm, crr, fr, p, fn) ==
    [min_max_pos |-> mm, cr_min_max |-> crr, cr_change_probability |-> 1,
     f_min_max |-> fr, f_change_probability |-> 1, pop_size |-> p,
     cost_function |-> fn]

\* The settings explored, each family varying one setting of a population
\* of 3 on a 1-dimensional problem with cr = 0.0 and f = 1: every cost
\* function; every population size; every number of dimensions (with
\* cr = 0.5); the factor f = 2 (with cr = 0.5); the single-point search box.
FnSweep ==
    { MkSettings(MinMaxPos(1), << 0, 1 >>, << 1, 2 >>, 3, fn) : fn \in CostFns }
PopSweep ==
    { MkSettings(MinMaxPos(1), << 0, 1 >>, << 1, 2 >>, p, "abs") : p \in 0 .. MaxPop }
DimSweep ==
    { MkSettings(MinMaxPos(d), << 1, 2 >>, << 1, 2 >>, 3, "abs") : d \in 0 .. MaxDim }
WideStep == { MkSettings(MinMaxPos(1), << 1, 2 >>, << 2, 3 >>, 3, "abs") }
PointBox == { MkSettings(PointMinMaxPos(1), << 0, 1 >>, << 1, 2 >>, 3, "abs") }
Configs == FnSweep \cup PopSweep \cup DimSweep \cup WideStep \cup PointBox

PopSize == settings.pop_size
Slots == 0 .. (PopSize - 1)
Dims == 0 .. (dim - 1)

\* --------------------------------------------------------- Population::new
\* lines 307-312: the empty individual, with no cost value
DummyIndividual(d) ==
    [pos |-> [k \in 0 .. (d - 1) |-> 0], cost |-> None, cr |-> 0, f |-> 0]

\* lines 330-341: the individuals the initialisation loop can produce
InitialIndividuals(s) ==
    LET d == Len(s.min_max_pos)
        vals == UNION { UniformSample(s.min_max_pos[k]) : k \in 1 .. d }
    IN  { [pos |-> p, cost |-> None, cr |-> c, f |-> ff] :
            p \in { q \in [0 .. (d - 1) -> vals] :
                      \A k \in 0 .. (d - 1) : q[k] \in UniformSample(s.min_max_pos[k + 1]) },
            c \in UniformSample(s.cr_min_max),
            ff \in UniformSample(s.f_min_max) }

\* the precondition with its bound off by one
DimCheckAcceptsEmpty(s) == Len(s.min_max_pos) >= 0
\* lines 298-301: the precondition checked first
DimCheckOk(s) == Len(s.min_max_pos) >= 1

\* lines 323-326: the four samplers built inside the struct literal
SamplersOk(s) ==
    /\ UniformOk(<< 0, s.pop_size >>)
    /\ UniformOk(<< 0, Len(s.min_max_pos) >>)
    /\ UniformOk(s.cr_min_max)
    /\ UniformOk(s.f_min_max)

\* lines 337-338: the per-dimension sampler built inside the loop
BoundsOk(s) == \A k \in 1 .. Len(s.min_max_pos) : UniformOk(s.min_max_pos[k])

Init ==
    /\ settings \in Configs
    /\ pc = "unbuilt"
    /\ curr = << >>
    /\ best = << >>
    /\ best_idx = None
    /\ best_cost_cache = None
    /\ num_cost_evaluations = 0
    /\ dim = 0
    /\ pop_countdown = 0
    /\ i = 0
    /\ id1 = 0
    /\ id2 = 0
    /\ id3 = 0
    /\ caller = "none"
    /\ yielded = None
    /\ entry = [best |-> None, num |-> 0, countdown |-> 0, passes |-> 0]
    /\ panic_at = "none"
    /\ rng_used = FALSE
    /\ cost_calls = 0
    /\ seen = {}
    /\ passes = 0
    /\ nth = None

\* what no step of Population::new touches
NewFrame ==
    UNCHANGED << settings, best_idx, best_cost_cache, num_cost_evaluations, i,
                 id1, id2, id3, caller, yielded, entry, cost_calls, seen, passes,
                 nth >>

\* Population::new, lines 297-344
New ==
    /\ pc = "unbuilt"
    /\ NewFrame
    /\ IF ~DimCheckOk(settings)
       THEN /\ pc' = "panicked"
            /\ panic_at' = "dim_check"
            /\ UNCHANGED << curr, best, dim, pop_countdown, rng_used >>
       ELSE IF ~SamplersOk(settings)
       THEN /\ pc' = "panicked"
            /\ panic_at' = "uniform_new"
            /\ UNCHANGED << curr, best, dim, pop_countdown, rng_used >>
       ELSE IF ~BoundsOk(settings)
       THEN \* the first individual's cr and f are sampled before the panic
            /\ pc' = "panicked"
            /\ panic_at' = "bounds_uniform_new"
            /\ rng_used' = TRUE
            /\ UNCHANGED << curr, best, dim, pop_countdown >>
       ELSE /\ pc' = "idle"
            /\ panic_at' = "none"
            /\ rng_used' = TRUE
            /\ dim' = Len(settings.min_max_pos)
            /\ pop_countdown' = settings.pop_size
            /\ curr' \in [0 .. (settings.pop_size - 1) -> InitialIndividuals(settings)]
            /\ best' = [k \in 0 .. (settings.pop_size - 1) |->
                          DummyIndividual(Len(settings.min_max_pos))]

\* ------------------------------------------------- Population::update_best
\* a selection that exchanges every slot
IsSwappingAlways(cu, be) == TRUE
\* a selection that forgets the case of a best without cost
IsSwappingNoInitial(cu, be) ==
    /\ IsSome(cu.cost)
    /\ IsSome(be.cost)
    /\ Le(Unwrap(cu.cost), Unwrap(be.cost))
\* a selection that keeps the best on equal costs
IsSwappingStrict(cu, be) ==
    \/ IsNone(be.cost)
    \/ /\ IsSome(cu.cost)
       /\ IsSome(be.cost)
       /\ Lt(Unwrap(cu.cost), Unwrap(be.cost))
\* lines 354-361: whether a slot's curr and best are exchanged
IsSwapping(cu, be) ==
    \/ IsNone(be.cost)
    \/ /\ IsSome(cu.cost)
       /\ IsSome(be.cost)
       /\ Le(Unwrap(cu.cost), Unwrap(be.cost))

\* lines 348-367: curr after the pass (std::mem::swap moves the whole Individual)
UpdateBestCurr(c, b) ==
    [k \in DOMAIN c |-> IF IsSwapping(c[k], b[k]) THEN b[k] ELSE c[k]]
\* lines 348-367: best after the pass
UpdateBestBest(c, b) ==
    [k \in DOMAIN c |-> IF IsSwapping(c[k], b[k]) THEN c[k] ELSE b[k]]

\* -------------------------------------------- Population::update_positions
\* lines 394-398 (and 399-403 for f): the self-adapted control parameter
AdaptedParam(u, probability, sampled, inherited) ==
    IF u < probability THEN sampled ELSE inherited

\* line 418: the mutant value of one dimension
MutantValue(b1, b2, b3, f, d) == b3.pos[d] + f * (b1.pos[d] - b2.pos[d])

\* a crossover without the forced mutation dimension
IsMutatedByCrossoverOnly(d, forced_mutation_dim, u, cr) == u < cr
\* line 417: whether dimension d takes the mutant value
IsMutated(d, forced_mutation_dim, u, cr) == d = forced_mutation_dim \/ u < cr

\* lines 416-422: the new position of slot i
NewPosition(be, b1, b2, b3, cr, f, forced_mutation_dim, coin) ==
    [d \in DOMAIN be.pos |->
        IF IsMutated(d, forced_mutation_dim, coin[d], cr)
        THEN MutantValue(b1, b2, b3, f, d)
        ELSE be.pos[d]]

\* a reproduction that leaves out the reset of line 425
ReproducedKeepsCost(be, b1, b2, b3, cr, f, forced_mutation_dim, coin) ==
    [pos |-> NewPosition(be, b1, b2, b3, cr, f, forced_mutation_dim, coin),
     cost |-> be.cost, cr |-> cr, f |-> f]
\* lines 389-425: curr[i] after its reproduction; cost reset to None
Reproduced(be, b1, b2, b3, cr, f, forced_mutation_dim, coin) ==
    [pos |-> NewPosition(be, b1, b2, b3, cr, f, forced_mutation_dim, coin),
     cost |-> None, cr |-> cr, f |-> f]

\* a second loop that compares id3 with id1 only
Id3CollidesOnlyId1 == id3 = id1
\* lines 380 and 385: the conditions of the two resampling loops
Id2Collides == id2 = id1
Id3Collides == id3 = id1 \/ id3 = id2

\* -------------------------------------------------------- Population::best
\* lines 430-448.  cost and pos are None when best() returns None; panic
\* marks an unwrap() of an absent cost.
BestOf(bi, c, b) ==
    IF IsNone(bi)
    THEN [panic |-> FALSE, cost |-> None, pos |-> None]
    ELSE LET cu == c[Unwrap(bi)]
             be == b[Unwrap(bi)]
         IN  IF IsNone(cu.cost)
             THEN IF IsNone(be.cost)
                  THEN [panic |-> TRUE, cost |-> None, pos |-> None]
                  ELSE [panic |-> FALSE, cost |-> be.cost, pos |-> Some(be.pos)]
             ELSE IF IsNone(be.cost)
             THEN [panic |-> FALSE, cost |-> cu.cost, pos |-> Some(cu.pos)]
             ELSE IF Lt(Unwrap(cu.cost), Unwrap(be.cost))
             THEN [panic |-> FALSE, cost |-> cu.cost, pos |-> Some(cu.pos)]
             ELSE [panic |-> FALSE, cost |-> be.cost, pos |-> Some(be.pos)]

\* best() of the current state
Best == BestOf(best_idx, curr, best)

\* -------------------------------------------------------- Population::eval
\* line 468-469: the slot evaluated by the running call
EvalIdx == pop_countdown - 1

\* line 471: the cost of the evaluated position
EvalCost == CostFunction(settings.cost_function, curr[EvalIdx].pos, dim)

\* a counter that skips the evaluation of a call that evolved the population
NextNumCostEvaluationsSkipping ==
    IF entry.countdown = 0 THEN num_cost_evaluations ELSE num_cost_evaluations + 1
\* line 473
NextNumCostEvaluations == num_cost_evaluations + 1

\* the comparison of line 477 turned around
ImprovesGlobalBestReversed(cost, cache) == IsNone(cache) \/ Lt(Unwrap(cache), cost)
\* lines 476-477: whether the global best is replaced
ImprovesGlobalBest(cost, cache) == IsNone(cache) \/ Lt(cost, Unwrap(cache))

\* a generation that ends one evaluation early
AtGenerationBoundaryEarly == pop_countdown <= 1
\* line 459: the whole population has been evaluated
AtGenerationBoundary == 0 = pop_countdown

\* the cache as it was before the evaluation
NextItemStale == best_cost_cache
\* line 513: the item PopIter::next returns, read after eval has run
NextItem == best_cost_cache'

\* what the steps inside eval leave alone
EvalFrame == UNCHANGED << settings, dim, panic_at >>

\* Iterator::nth(n) as called in the crate docs (line 55): it skips n items
\* and returns the following one, so it calls next() n + 1 times
NthCalls(n) == n + 1

\* an iter().nth(n) still has calls of next() to make
NthRunning == IsSome(nth) /\ Unwrap(nth).left > 0
\* an iter().nth(n) has returned and nothing was called since
NthReturned == pc = "idle" /\ IsSome(nth) /\ Unwrap(nth).left = 0

\* Entering eval, lines 458-465: at a generation boundary update_best runs
\* and update_positions starts with slot 0; otherwise the evaluation follows.
Enter(who) ==
    /\ pc = "idle"
    /\ num_cost_evaluations < MaxEvals
    /\ NthRunning => who = "next"
    /\ nth' = IF NthRunning
              THEN Some([n |-> Unwrap(nth).n, left |-> Unwrap(nth).left - 1])
              ELSE None
    /\ caller' = who
    /\ yielded' = None
    /\ entry' = [best |-> Best.cost, num |-> num_cost_evaluations,
                 countdown |-> pop_countdown, passes |-> passes]
    /\ IF AtGenerationBoundary
       THEN /\ curr' = UpdateBestCurr(curr, best)
            /\ best' = UpdateBestBest(curr, best)
            /\ i' = 0
            /\ pc' = "draw"
       ELSE /\ pc' = "evaluate"
            /\ UNCHANGED << curr, best, i >>
    /\ EvalFrame
    /\ UNCHANGED << best_idx, best_cost_cache, num_cost_evaluations,
                    pop_countdown, id1, id2, id3, rng_used, cost_calls, seen,
                    passes >>

\* Population::eval called directly
EvalCall == Enter("eval")

\* PopIter::next, line 512: forwards to eval
IterNext == Enter("next")

\* de.iter().nth(n) on a fresh population, lines 55 and 110: the calls of
\* next() it makes follow as IterNext steps
NthCall ==
    /\ pc = "idle"
    /\ caller = "none"
    /\ IsNone(nth)
    /\ \E n \in 0 .. MaxNth : nth' = Some([n |-> n, left |-> NthCalls(n)])
    /\ UNCHANGED << settings, pc, curr, best, best_idx, best_cost_cache,
                    num_cost_evaluations, dim, pop_countdown, i, id1, id2, id3,
                    caller, yielded, entry, panic_at, rng_used, cost_calls,
                    seen, passes >>

LoopFrame ==
    UNCHANGED << curr, best, best_idx, best_cost_cache, num_cost_evaluations,
                 pop_countdown, i, caller, yielded, entry, cost_calls, seen,
                 passes, nth >>

\* lines 377 and 379: id1 and the first id2 of slot i
DrawIds ==
    /\ pc = "draw"
    /\ id1' \in Slots
    /\ id2' \in Slots
    /\ pc' = "loop2"
    /\ rng_used' = TRUE
    /\ UNCHANGED id3
    /\ EvalFrame /\ LoopFrame

\* lines 380-382: one turn of the loop that resamples id2
ResampleId2 ==
    /\ pc = "loop2"
    /\ Id2Collides
    /\ id2' \in Slots
    /\ UNCHANGED << pc, id1, id3, rng_used >>
    /\ EvalFrame /\ LoopFrame

\* line 384: the loop is left and the first id3 is drawn
DrawId3 ==
    /\ pc = "loop2"
    /\ ~Id2Collides
    /\ id3' \in Slots
    /\ pc' = "loop3"
    /\ UNCHANGED << id1, id2, rng_used >>
    /\ EvalFrame /\ LoopFrame

\* lines 385-387: one turn of the loop that resamples id3
ResampleId3 ==
    /\ pc = "loop3"
    /\ Id3Collides
    /\ id3' \in Slots
    /\ UNCHANGED << pc, id1, id2, rng_used >>
    /\ EvalFrame /\ LoopFrame

\* lines 389-426: slot i is rebuilt from best; after the last slot eval
\* resets the countdown (line 464)
Reproduce ==
    /\ pc = "loop3"
    /\ ~Id3Collides
    /\ \E u_cr \in UnitDraws, s_cr \in UniformSample(settings.cr_min_max),
          u_f \in UnitDraws, s_f \in UniformSample(settings.f_min_max),
          forced_mutation_dim \in Dims, coin \in [Dims -> UnitDraws] :
          LET cr == AdaptedParam(u_cr, settings.cr_change_probability, s_cr, best[i].cr)
              f == AdaptedParam(u_f, settings.f_change_probability, s_f, best[i].f)
          IN  curr' = [curr EXCEPT ![i] =
                         Reproduced(best[i], best[id1], best[id2], best[id3],
                                    cr, f, forced_mutation_dim, coin)]
    /\ i' = i + 1
    /\ id1' = 0 /\ id2' = 0 /\ id3' = 0
    /\ IF i + 1 = Cardinality(DOMAIN curr)
       THEN /\ pop_countdown' = Cardinality(DOMAIN curr)
            /\ passes' = passes + 1
            /\ pc' = "evaluate"
       ELSE /\ pc' = "draw"
            /\ UNCHANGED << pop_countdown, passes >>
    /\ EvalFrame
    /\ UNCHANGED << best, best_idx, best_cost_cache, num_cost_evaluations,
                    caller, yielded, entry, rng_used, cost_calls, seen, nth >>

\* lines 467-481, and line 513 when the call came through PopIter::next
Evaluate ==
    /\ pc = "evaluate"
    /\ LET cost == EvalCost
           improves == ImprovesGlobalBest(cost, best_cost_cache)
       IN  /\ curr' = [curr EXCEPT ![EvalIdx].cost = Some(cost)]
           /\ best_cost_cache' = IF improves THEN Some(cost) ELSE best_cost_cache
           /\ best_idx' = IF improves THEN Some(EvalIdx) ELSE best_idx
           /\ seen' = seen \cup {cost}
    /\ pop_countdown' = EvalIdx
    /\ num_cost_evaluations' = NextNumCostEvaluations
    /\ cost_calls' = cost_calls + 1
    /\ yielded' = IF caller = "next" THEN NextItem ELSE None
    /\ pc' = "idle"
    /\ EvalFrame
    /\ UNCHANGED << best, i, id1, id2, id3, caller, entry, rng_used, passes,
                    nth >>

Next ==
    \/ New
    \/ EvalCall
    \/ IterNext
    \/ NthCall
    \/ DrawIds
    \/ ResampleId2
    \/ DrawId3
    \/ ResampleId3
    \/ Reproduce
    \/ Evaluate

Spec == Init /\ [][Next]_vars

\* ================================================================== claims
\* True when every cost value returned so far compares with every other.
TotallyOrdered == NaN \notin seen

\* C1: with totally ordered costs, the cost best() returns after an
\* evaluation is less than or equal to the cost it returned before that
\* evaluation, also when the call ran update_best and update_positions.
C1_BestCostNonIncreasing ==
    (pc = "idle" /\ num_cost_evaluations >= 2 /\ TotallyOrdered)
        => /\ IsSome(entry.best)
           /\ IsSome(Best.cost)
           /\ Le(Unwrap(Best.cost), Unwrap(entry.best))

\* C1 witness: a call that crossed the second generation boundary has
\* returned and best() is strictly lower than before the call.
C1_Witness ==
    /\ pc = "idle"
    /\ TotallyOrdered
    /\ entry.countdown = 0
    /\ passes = 2
    /\ IsSome(entry.best)
    /\ Lt(Unwrap(Best.cost), Unwrap(entry.best))

\* C2: with totally ordered costs, after n >= 1 evaluations best() returns
\* a pair whose cost is the minimum of all costs the cost function has
\* returned so far, and that cost equals best_cost_cache.
C2_BestIsMinimumSeen ==
    (pc = "idle" /\ num_cost_evaluations >= 1 /\ TotallyOrdered)
        => /\ ~Best.panic
           /\ IsSome(Best.cost)
           /\ IsSome(Best.pos)
           /\ Best.cost = best_cost_cache
           /\ Unwrap(Best.cost) \in seen
           /\ \A c \in seen : Le(Unwrap(Best.cost), c)

\* C2 witness: the minimum was found in an earlier generation: the slot of
\* the global best has been re-evaluated to a higher cost since.
C2_Witness ==
    /\ pc = "idle"
    /\ TotallyOrdered
    /\ passes >= 1
    /\ IsSome(best_idx)
    /\ IsSome(curr[Unwrap(best_idx)].cost)
    /\ IsSome(best[Unwrap(best_idx)].cost)
    /\ Lt(Unwrap(best[Unwrap(best_idx)].cost), Unwrap(curr[Unwrap(best_idx)].cost))
    /\ Cardinality(seen) >= 3

\* C3: no cost evaluation happens before or during construction, and every
\* eval() call that has returned invoked the cost function once and raised
\* num_cost_evaluations by one, at a generation boundary or not.
C3_OneEvaluationPerCall ==
    /\ cost_calls = num_cost_evaluations
    /\ (pc \in {"unbuilt", "panicked"} \/ (pc = "idle" /\ caller = "none"))
            => num_cost_evaluations = 0
    /\ (pc = "idle" /\ caller /= "none")
            => num_cost_evaluations = entry.num + 1
    /\ (pc \notin {"unbuilt", "panicked", "idle"})
            => num_cost_evaluations = entry.num

\* C3 witness: a call that crossed a generation boundary has returned.
C3_Witness ==
    /\ pc = "idle"
    /\ entry.countdown = 0
    /\ passes >= 1
    /\ num_cost_evaluations = entry.num + 1

\* C4 as stated: after pop_size calls of eval() on a fresh population the
\* countdown is back at pop_size and one selection and reproduction pass
\* has occurred.
C4_AsStated ==
    (pc = "idle" /\ num_cost_evaluations = PopSize)
        => (pop_countdown = PopSize /\ passes = 1)

\* C4 amended: after pop_size calls the countdown is 0 and no pass has
\* occurred; the pass runs inside call pop_size + 1, and when that call has
\* returned one pass has occurred and the countdown is pop_size - 1.
C4_PassRunsInNextCall ==
    pc = "idle"
        => /\ num_cost_evaluations = PopSize
                => (pop_countdown = 0 /\ passes = 0)
           /\ num_cost_evaluations = PopSize + 1
                => (pop_countdown = PopSize - 1 /\ passes = 1)
           /\ num_cost_evaluations < PopSize
                => (pop_countdown = PopSize - num_cost_evaluations /\ passes = 0)

\* C4 witness: call pop_size + 1 on a population of 3 has returned.
C4_Witness ==
    /\ pc = "idle"
    /\ PopSize = 3
    /\ num_cost_evaluations = PopSize + 1
    /\ passes = 1

\* C5: the resampling loops of update_positions always exit under a fair
\* random source: whenever a loop has to draw again, the sampler over
\* [0, pop_size) has a value that ends the loop.
C5_ResamplingCanExit ==
    /\ (pc = "loop2" /\ Id2Collides) => \E v \in Slots : v /= id1
    /\ (pc = "loop3" /\ Id3Collides) => \E v \in Slots : v /= id1 /\ v /= id2

\* C6: best() returns None exactly when nothing has been evaluated; after
\* an evaluation it returns a pair without failing: one of curr and best at
\* best_idx carries a cost, and when both do and compare, the returned cost
\* is the lower one.
C6_BestDefinedAfterEval ==
    pc = "idle"
        => /\ ~Best.panic
           /\ IsNone(Best.cost) <=> num_cost_evaluations = 0
           /\ IsNone(Best.pos) <=> num_cost_evaluations = 0
           /\ num_cost_evaluations >= 1
                => /\ IsSome(best_idx)
                   /\ Unwrap(best_idx) \in Slots
                   /\ LET cu == curr[Unwrap(best_idx)]
                          be == best[Unwrap(best_idx)]
                      IN  /\ IsSome(cu.cost) \/ IsSome(be.cost)
                          /\ (IsSome(cu.cost) /\ IsSome(be.cost)
                                /\ Comparable(Unwrap(cu.cost), Unwrap(be.cost)))
                               => /\ Le(Unwrap(Best.cost), Unwrap(cu.cost))
                                  /\ Le(Unwrap(Best.cost), Unwrap(be.cost))
                          /\ (IsNone(cu.cost) => Best.cost = be.cost)
                          /\ (IsNone(be.cost) => Best.cost = cu.cost)

\* C6 witness: after a reproduction pass the slot of the global best has no
\* cost in curr, and best() answers from best.
C6_Witness ==
    /\ pc = "idle"
    /\ passes >= 1
    /\ IsSome(best_idx)
    /\ IsNone(curr[Unwrap(best_idx)].cost)
    /\ IsSome(best[Unwrap(best_idx)].cost)
    /\ Best.cost = best[Unwrap(best_idx)].cost

\* C7: a PopIter::next() that has returned ran one evaluation and returned
\* Some(item), the item being best_cost_cache as it is after that evaluation.
C7_NextYieldsCacheAfterEval ==
    (pc = "idle" /\ caller = "next")
        => /\ IsSome(yielded)
           /\ yielded = best_cost_cache
           /\ num_cost_evaluations = entry.num + 1
           /\ cost_calls = entry.num + 1

\* C7 witness: a next() has returned a cost lower than best() was before it.
C7_Witness ==
    /\ pc = "idle"
    /\ caller = "next"
    /\ IsSome(entry.best)
    /\ IsSome(yielded)
    /\ Lt(Unwrap(yielded), Unwrap(entry.best))

\* C9: a cost that does not compare with the value it is tested against
\* replaces nothing: eval() leaves best_idx and best_cost_cache as they are
\* and still stores and counts the evaluation; update_best leaves the slot
\* unswapped.
C9_IncomparableReplacesNothing ==
    [][ /\ (pc = "evaluate" /\ IsSome(best_cost_cache)
              /\ ~Comparable(EvalCost, Unwrap(best_cost_cache)))
           => /\ pc' = "idle"
              /\ best_idx' = best_idx
              /\ best_cost_cache' = best_cost_cache
              /\ num_cost_evaluations' = num_cost_evaluations + 1
              /\ cost_calls' = cost_calls + 1
              /\ curr' = [curr EXCEPT ![EvalIdx].cost = Some(EvalCost)]
              /\ best' = best
        /\ (pc = "idle" /\ pc' = "draw")
           => \A k \in Slots :
                (/\ IsSome(curr[k].cost)
                 /\ IsSome(best[k].cost)
                 /\ ~Comparable(Unwrap(curr[k].cost), Unwrap(best[k].cost)))
                    => (curr'[k] = curr[k] /\ best'[k] = best[k])
      ]_vars

\* C9 witness: update_best has just run in a generation after the first and
\* left alone a slot whose new cost does not compare with its best cost;
\* that cost had been tested against the cache when it was evaluated.
C9_Witness ==
    /\ pc = "draw"
    /\ i = 0
    /\ passes >= 1
    /\ \E k \in Slots :
          /\ curr[k].cost = Some(NaN)
          /\ IsSome(best[k].cost)
          /\ ~Unwrap(best[k].cost).nan
    /\ IsSome(best_cost_cache)
    /\ ~Unwrap(best_cost_cache).nan

\* C10: construction from an empty bounds sequence fails at the first check
\* of Population::new, before anything is sampled, and returns no
\* population; a non-empty bounds sequence never fails that check.
C10_EmptyBoundsFatal ==
    pc /= "unbuilt"
        => /\ Len(settings.min_max_pos) = 0
                => /\ pc = "panicked"
                   /\ panic_at = "dim_check"
                   /\ ~rng_used
                   /\ curr = << >>
                   /\ best = << >>
                   /\ cost_calls = 0
           /\ Len(settings.min_max_pos) >= 1 => panic_at /= "dim_check"

\* C10 witness: construction from an empty bounds sequence has failed.
C10_Witness ==
    /\ pc = "panicked"
    /\ Len(settings.min_max_pos) = 0
    /\ panic_at = "dim_check"

\* True in the state Population::new returns: nothing has been called yet.
JustConstructed == pc = "idle" /\ caller = "none"

\* an Individual whose position, cr and f lie in the configured ranges and
\* whose cost is absent
InConfiguredRanges(ind) ==
    /\ \A d \in Dims :
          /\ settings.min_max_pos[d + 1][1] <= ind.pos[d]
          /\ ind.pos[d] < settings.min_max_pos[d + 1][2]
    /\ settings.cr_min_max[1] <= ind.cr /\ ind.cr < settings.cr_min_max[2]
    /\ settings.f_min_max[1] <= ind.f /\ ind.f < settings.f_min_max[2]
    /\ IsNone(ind.cost)

C12_PointBoxStaysAtOrigin ==
    (settings.min_max_pos = PointMinMaxPos(1) /\ pc /= "unbuilt")
        => /\ pc /= "panicked"
           /\ \A k \in Slots : curr[k].pos = [d \in Dims |-> 0]
           /\ num_cost_evaluations >= 1
                => Best.cost = Some(CostFunction(settings.cost_function,
                                                 [d \in Dims |-> 0], dim))

\* C13: de.iter().nth(N) on a fresh population performs N cost evaluations:
\* when it has returned, num_cost_evaluations is N.
C13_NthPerformsN == NthReturned => num_cost_evaluations = Unwrap(nth).n

InPass == pc \in {"draw", "loop2", "loop3"}

\* C15: call k of eval() evaluates slot pop_size-1-((k-1) mod pop_size), so
\* a generation evaluates the slots from the highest index down to 0, each
\* once; selection and reproduction run in the calls entered with countdown
\* 0, before the evaluation of that call and only when every individual of
\* the generation has been evaluated; and 0 <= countdown <= pop_size.
C15_GenerationProtocol ==
    pc \notin {"unbuilt", "panicked"}
        => /\ 0 <= pop_countdown /\ pop_countdown <= PopSize
           /\ pc = "evaluate"
                => /\ EvalIdx = PopSize - 1 - (num_cost_evaluations % PopSize)
                   /\ IsNone(curr[EvalIdx].cost)
           /\ (pc = "idle" /\ num_cost_evaluations >= 1)
                => /\ pop_countdown
                        = PopSize - 1 - ((num_cost_evaluations - 1) % PopSize)
                   /\ passes = (num_cost_evaluations - 1) \div PopSize
           /\ pc \in {"idle", "evaluate"}
                => \A k \in Slots : IsSome(curr[k].cost) <=> k >= pop_countdown
           /\ InPass
                => /\ entry.countdown = 0
                   /\ pop_countdown = 0
                   /\ num_cost_evaluations = entry.num
                   /\ num_cost_evaluations >= PopSize
                   /\ num_cost_evaluations % PopSize = 0
                   /\ passes = entry.passes
                   /\ \A k \in Slots : IsSome(best[k].cost)
                   /\ \A k \in Slots : k < i => IsNone(curr[k].cost)
           /\ (pc = "evaluate" /\ entry.countdown = 0)
                => (passes = entry.passes + 1 /\ pop_countdown = PopSize)
           /\ (pc = "evaluate" /\ entry.countdown /= 0)
                => (passes = entry.passes /\ pop_countdown = entry.countdown)

\* C15 witness: the second pass has run and its call is about to evaluate
\* the highest slot of the third generation.
C15_Witness ==
    /\ pc = "evaluate"
    /\ entry.countdown = 0
    /\ passes = 2
    /\ PopSize = 3
    /\ EvalIdx = 2
    /\ num_cost_evaluations = 6

\* the step of eval() that runs update_best
SelectionStep == pc = "idle" /\ pc' = "draw"

\* C16: update_best exchanges the whole Individuals curr[k] and best[k]
\* exactly when best[k] has no cost or curr[k].cost <= best[k].cost (equal
\* costs swap); a slot that is not exchanged is left as it was, so a slot's
\* outcome depends on that slot alone; and a best[k] that had a cost keeps it
\* or gets one that is less than or equal to it.
C16_SelectionRule ==
    [][ SelectionStep
        => \A k \in Slots :
             /\ IF \/ IsNone(best[k].cost)
                   \/ /\ IsSome(curr[k].cost)
                      /\ ~Unwrap(curr[k].cost).nan
                      /\ ~Unwrap(best[k].cost).nan
                      /\ Unwrap(curr[k].cost).v <= Unwrap(best[k].cost).v
                THEN curr'[k] = best[k] /\ best'[k] = curr[k]
                ELSE curr'[k] = curr[k] /\ best'[k] = best[k]
             /\ IsSome(best[k].cost)
                  => /\ IsSome(best'[k].cost)
                     /\ \/ best'[k].cost = best[k].cost
                        \/ Lt(Unwrap(best'[k].cost), Unwrap(best[k].cost))
      ]_vars

\* C16 witness: update_best has just run on a slot whose curr and best held
\* equal costs at different positions.
C16_Witness ==
    /\ pc = "draw"
    /\ i = 0
    /\ passes >= 1
    /\ \E k \in Slots :
         /\ IsSome(curr[k].cost)
         /\ curr[k].cost = best[k].cost
         /\ ~Unwrap(curr[k].cost).nan
         /\ curr[k].pos /= best[k].pos

\* the step of update_positions that rebuilds curr[i] (lines 389-425)
ReproductionStep == pc = "loop3" /\ i' = i + 1

\* C17: whenever update_positions builds curr[i], the donor indices id1, id2
\* and id3 it uses lie in 0..pop_size-1 and are pairwise distinct; they may
\* equal i.
C17_DonorsDistinct ==
    [][ ReproductionStep
        => /\ i \in Slots
           /\ id1 \in Slots /\ id2 \in Slots /\ id3 \in Slots
           /\ id1 /= id2 /\ id1 /= id3 /\ id2 /= id3
      ]_vars

\* C17 witness: both resampling loops are over with three distinct donors,
\* one of which is the slot being rebuilt.
C17_Witness ==
    /\ pc = "loop3"
    /\ ~Id3Collides
    /\ id1 /= id2
    /\ id1 = i
    /\ passes >= 1

\* C18: whenever update_positions builds curr[i], at least one dimension of
\* the new position holds best[id3][d] + f * (best[id1][d] - best[id2][d])
\* with the f the slot was given, whatever the crossover draws; with one
\* dimension that dimension does, also when cr is 0; and every dimension
\* holds either that value or best[i][d].
C18_ForcedMutation ==
    [][ ReproductionStep
        => LET new == curr'[i]
               mutant(d) == best[id3].pos[d]
                              + new.f * (best[id1].pos[d] - best[id2].pos[d])
           IN  /\ DOMAIN new.pos = Dims
               /\ \E d \in Dims : new.pos[d] = mutant(d)
               /\ \A d \in Dims : \/ new.pos[d] = mutant(d)
                                  \/ new.pos[d] = best[i].pos[d]
               /\ dim = 1 => new.pos[0] = mutant(0)
      ]_vars

\* C18 witness: a slot of a 1-dimensional problem was rebuilt with cr = 0 and
\* its position moved away from best[i].
C18_Witness ==
    /\ pc \in {"draw", "evaluate"}
    /\ i >= 1
    /\ passes >= 1
    /\ dim = 1
    /\ curr[i - 1].cr = 0
    /\ IsNone(curr[i - 1].cost)
    /\ curr[i - 1].pos[0] /= best[i - 1].pos[0]

\* the individual's cost, when it has one, is the cost of its own position
CostMatchesPosition(ind) ==
    IsSome(ind.cost)
        => Unwrap(ind.cost) = CostFunction(settings.cost_function, ind.pos, dim)

\* C19: in every state every individual of curr and of best that carries a
\* cost carries the cost of its own position, and the position best()
\* returns is one whose cost is the cost best() returns.
C19_CostMatchesPosition ==
    pc \notin {"unbuilt", "panicked"}
        => /\ \A k \in Slots : /\ CostMatchesPosition(curr[k])
                               /\ CostMatchesPosition(best[k])
           /\ IsSome(Best.cost)
                => /\ IsSome(Best.pos)
                   /\ Unwrap(Best.cost)
                        = CostFunction(settings.cost_function,
                                       Unwrap(Best.pos), dim)

\* C19 witness: after two passes a slot holds two evaluated individuals at
\* different positions with different costs, and best() returns a pair.
C19_Witness ==
    /\ pc = "idle"
    /\ passes >= 2
    /\ IsSome(Best.cost)
    /\ \E k \in Slots :
         /\ IsSome(curr[k].cost)
         /\ IsSome(best[k].cost)
         /\ curr[k].pos /= best[k].pos
         /\ curr[k].cost /= best[k].cost
    /\ \E k \in Slots : IsNone(curr[k].cost)

\* cr and f of the individual lie in the configured ranges
ControlsInRanges(ind) ==
    /\ settings.cr_min_max[1] <= ind.cr /\ ind.cr < settings.cr_min_max[2]
    /\ settings.f_min_max[1] <= ind.f /\ ind.f < settings.f_min_max[2]

\* C20: the placeholders of the best array are never read by reproduction,
\* never evaluated and never returned by best(): while update_positions
\* runs every best[k] carries a cost; during the first pass the slots of
\* curr not yet rebuilt are the placeholders and the rebuilt ones have cr and
\* f from the configured ranges and no cost; the individual eval() evaluates
\* and every individual that carries a cost has cr and f from the configured
\* ranges; and best() returns the pair of an individual that has a cost.
C20_PlaceholdersNeverLeak ==
    pc \notin {"unbuilt", "panicked"}
        => /\ InPass => \A k \in Slots : /\ IsSome(best[k].cost)
                                         /\ ControlsInRanges(best[k])
           /\ (InPass /\ passes = 0)
                => \A k \in Slots :
                     IF k >= i
                     THEN curr[k] = DummyIndividual(dim)
                     ELSE ControlsInRanges(curr[k]) /\ IsNone(curr[k].cost)
           /\ pc = "evaluate"
                => /\ ControlsInRanges(curr[EvalIdx])
                   /\ passes >= 1 => i = PopSize
           /\ \A k \in Slots :
                /\ IsSome(curr[k].cost) => ControlsInRanges(curr[k])
                /\ IsSome(best[k].cost) => ControlsInRanges(best[k])
           /\ ~Best.panic
           /\ IsSome(best_idx)
                => /\ IsSome(Best.cost)
                   /\ \E k \in Slots :
                        \/ /\ IsSome(curr[k].cost)
                           /\ Best.cost = curr[k].cost
                           /\ Best.pos = Some(curr[k].pos)
                        \/ /\ IsSome(best[k].cost)
                           /\ Best.cost = best[k].cost
                           /\ Best.pos = Some(best[k].pos)

\* C20 witness: the first pass is over, every placeholder that selection
\* moved into curr has been rebuilt away from the origin with cr and f not 0,
\* and the first of them is about to be evaluated.
C20_Witness ==
    /\ pc = "evaluate"
    /\ entry.countdown = 0
    /\ passes = 1
    /\ dim = 2
    /\ EvalIdx = PopSize - 1
    /\ \A k \in Slots : /\ curr[k].cr /= 0
                        /\ curr[k].f /= 0
                        /\ curr[k].pos[0] /= 0
                        /\ IsSome(best[k].cost)

====
